---------------------------- MODULE Spec2Model ----------------------------
(***************************************************************************)
(* Model of ckipnlp/container/util/parsed_tree.py: the ParsedNodeData text *)
(* codec, the ParsedTree text and dict codecs (from_text, to_text,         *)
(* from_dict, to_dict, normalize_text) and the traversals get_heads,       *)
(* get_relations and get_subjects.                                         *)
(*                                                                         *)
(* A Python str is a sequence of one-character strings.  Python's None is  *)
(* NoneStr for an optional text field and NoneId for an optional node id.  *)
(***************************************************************************)
EXTENDS Integers, Sequences, FiniteSets, TLC

VARIABLES
    op,          \* the operation being run
    pc,          \* position in it
    data,        \* its input: a text or a nested dict
    args,        \* its keyword arguments
    idx,         \* from_text: index of the next character of data
    tree,        \* the ParsedTree under construction / traversal
    node_id,     \* from_text: next identifier
    node_queue,  \* from_text: stack of open parents; from_dict: the deque
    text,        \* from_text: accumulated node text
    ending,      \* from_text: the `ending` flag
    created,     \* from_text: identifiers created by the last character step
    result       \* what the operation returned, or the exception it raised

vars == <<op, pc, data, args, idx, tree, node_id, node_queue, text, ending, created, result>>

---------------------------------------------------------------------------
\* Bounds of the model.

\* longest text handed to from_text
MaxTextLen == 6
\* longest text handed to normalize_text
MaxNormLen == 6
\* most nodes of a dict handed to from_dict
MaxNodes == 4

---------------------------------------------------------------------------
\* Python values.

\* None, for an optional text field; no text is equal to it
NoneStr == <<"None">>
\* None, for an optional identifier; identifiers are naturals
NoneId == -1

NoResult == [kind |-> "none"]
Returned(v) == [kind |-> "return", val |-> v]
Raised(e) == [kind |-> "raise", exc |-> e]

Last(s) == s[Len(s)]
ButLast(s) == SubSeq(s, 1, Len(s) - 1)

\* c in s
Contains(s, c) == \E i \in 1..Len(s) : s[i] = c

\* all texts over alphabet A of length at most n
Texts(A, n) == UNION {[1..k -> A] : k \in 0..n}

RECURSIVE Join(_, _)
\* sep.join(ss)
Join(sep, ss) ==
    IF ss = <<>> THEN <<>>
    ELSE IF Len(ss) = 1 THEN ss[1]
    ELSE ss[1] \o sep \o Join(sep, Tail(ss))

RECURSIVE SplitChar(_, _)
\* s.split(c) for a one-character separator c: always at least one field
SplitChar(s, c) ==
    IF ~Contains(s, c) THEN <<s>>
    ELSE LET k == CHOOSE i \in 1..Len(s) : s[i] = c /\ \A j \in 1..(i - 1) : s[j] # c
         IN  <<SubSeq(s, 1, k - 1)>> \o SplitChar(SubSeq(s, k + 1, Len(s)), c)

---------------------------------------------------------------------------
\* ParsedNodeData

\* the NamedTuple (role, pos, word)
NodeData(role, pos, word) == <<role, pos, word>>
Role(d) == d[1]
Pos(d) == d[2]
Word(d) == d[3]

\* ParsedNodeData.from_text: cls(*fields) takes at most three fields
NodeData_from_text(s) ==
    IF Contains(s, ":")
    THEN LET fields == SplitChar(s, ":")
         IN  IF Len(fields) = 2 THEN Returned(NodeData(fields[1], fields[2], NoneStr))
             ELSE IF Len(fields) = 3 THEN Returned(NodeData(fields[1], fields[2], fields[3]))
             ELSE Raised("TypeError")
    ELSE Returned(NodeData(NoneStr, s, NoneStr))

\* filter(None, ...) keeps a field that is neither None nor ''
Truthy(f) == f # NoneStr /\ f # <<>>

\* ParsedNodeData.to_text
NodeData_to_text(d) == Join(<<":">>, SelectSeq(d, Truthy))

---------------------------------------------------------------------------
\* The tree container (treelib.Tree as ParsedTree uses it).

\* nodes: identifier -> node; order: the identifiers in insertion order (the keys of
\* Tree._nodes); fpointer: identifier -> children; bpointer: identifier -> parent
EmptyTree == [nodes |-> <<>>, order |-> <<>>, fpointer |-> <<>>, bpointer |-> <<>>,
              root |-> NoneId]

\* Tree.children(nid): the children in insertion order
Children(t, nid) == t.fpointer[nid]

\* Node.is_leaf()
is_leaf(t, nid) == t.fpointer[nid] = <<>>

\* Tree.create_node without the single-root check
create_node_AnyRoot(t, tag, identifier, parent, d) ==
    IF identifier \in DOMAIN t.nodes THEN [exc |-> "DuplicatedNodeIdError", tree |-> t]
    ELSE IF parent # NoneId /\ parent \notin DOMAIN t.nodes
    THEN [exc |-> "NodeIDAbsentError", tree |-> t]
    ELSE [exc |-> "",
          tree |-> [nodes |-> t.nodes @@ (identifier :> [tag |-> tag, data |-> d]),
                    order |-> Append(t.order, identifier),
                    fpointer |-> IF parent = NoneId
                                 THEN t.fpointer @@ (identifier :> <<>>)
                                 ELSE [t.fpointer EXCEPT ![parent] = Append(@, identifier)]
                                      @@ (identifier :> <<>>),
                    bpointer |-> t.bpointer @@ (identifier :> parent),
                    root |-> IF parent = NoneId THEN identifier ELSE t.root]]

\* Tree.create_node(tag, identifier, parent, data): add_node's checks, then the insertion
create_node(t, tag, identifier, parent, d) ==
    IF identifier \in DOMAIN t.nodes THEN [exc |-> "DuplicatedNodeIdError", tree |-> t]
    ELSE IF parent = NoneId /\ t.root # NoneId THEN [exc |-> "MultipleRootError", tree |-> t]
    ELSE IF parent # NoneId /\ parent \notin DOMAIN t.nodes
    THEN [exc |-> "NodeIDAbsentError", tree |-> t]
    ELSE [exc |-> "",
          tree |-> [nodes |-> t.nodes @@ (identifier :> [tag |-> tag, data |-> d]),
                    order |-> Append(t.order, identifier),
                    fpointer |-> IF parent = NoneId
                                 THEN t.fpointer @@ (identifier :> <<>>)
                                 ELSE [t.fpointer EXCEPT ![parent] = Append(@, identifier)]
                                      @@ (identifier :> <<>>),
                    bpointer |-> t.bpointer @@ (identifier :> parent),
                    root |-> IF parent = NoneId THEN identifier ELSE t.root]]

---------------------------------------------------------------------------
\* ParsedTree.normalize_text

RECURSIVE FindSub(_, _, _)
\* s.find(sub, from): least index >= from where sub occurs in s, or 0
FindSub(s, sub, from) ==
    IF from + Len(sub) - 1 > Len(s) THEN 0
    ELSE IF SubSeq(s, from, from + Len(sub) - 1) = sub THEN from
    ELSE FindSub(s, sub, from + 1)

RECURSIVE SplitMax(_, _, _)
\* s.split(sep, maxsplit): at most maxsplit splits, left to right
SplitMax(s, sep, maxsplit) ==
    LET k == FindSub(s, sep, 1)
    IN  IF maxsplit = 0 \/ k = 0 THEN <<s>>
        ELSE <<SubSeq(s, 1, k - 1)>>
             \o SplitMax(SubSeq(s, k + Len(sep), Len(s)), sep, maxsplit - 1)

RECURSIVE RStrip(_, _)
\* s.rstrip(c): every trailing c removed
RStrip(s, c) == IF s # <<>> /\ Last(s) = c THEN RStrip(ButLast(s), c) ELSE s

\* maxsplit argument of the split in normalize_text
NormalizeMaxSplit == 2

\* ParsedTree.normalize_text
normalize_text(tree_text) ==
    IF Contains(tree_text, "#")
    THEN RStrip(Last(SplitMax(tree_text, <<"]", " ">>, NormalizeMaxSplit)), "#")
    ELSE tree_text

---------------------------------------------------------------------------
\* ParsedTree.from_text: the character scan

\* the locals of from_text before the first character
ScanInit == [tree |-> EmptyTree, node_id |-> 0, node_queue |-> <<NoneId>>,
             text |-> <<>>, ending |-> TRUE, created |-> <<>>, exc |-> ""]

\* data_class.from_text(text) and tree.create_node(tag=text, identifier=node_id,
\* parent=node_queue[-1], data=node_data); node_id += 1
Flush(st) ==
    LET nd == NodeData_from_text(st.text)
    IN  IF nd.kind = "raise" THEN [st EXCEPT !.exc = nd.exc]
        ELSE IF st.node_queue = <<>> THEN [st EXCEPT !.exc = "IndexError"]
        ELSE LET r == create_node(st.tree, st.text, st.node_id, Last(st.node_queue), nd.val)
             IN  IF r.exc # "" THEN [st EXCEPT !.exc = r.exc]
                 ELSE [st EXCEPT !.tree = r.tree, !.node_id = @ + 1,
                                 !.created = Append(@, st.node_id)]

\* node_queue.pop()
PopQueue(st) ==
    IF st.exc # "" THEN st
    ELSE IF st.node_queue = <<>> THEN [st EXCEPT !.exc = "IndexError"]
    ELSE [st EXCEPT !.node_queue = ButLast(@)]

\* the `if not ending:` guard of the ')' and '|' branches
FlushUnlessEnding(st) == IF ~st.ending THEN Flush(st) ELSE st

\* one iteration of `for char in data`
ScanChar(st0, char) ==
    LET st == [st0 EXCEPT !.created = <<>>]
    IN  IF char = "("
        THEN LET f == Flush(st)
             IN  IF f.exc # "" THEN f
                 ELSE [f EXCEPT !.node_queue = Append(@, st.node_id), !.text = <<>>]
        ELSE IF char = ")"
        THEN LET p == PopQueue(FlushUnlessEnding(st))
             IN  IF p.exc # "" THEN p ELSE [p EXCEPT !.text = <<>>, !.ending = TRUE]
        ELSE IF char = "|"
        THEN LET f == FlushUnlessEnding(st)
             IN  IF f.exc # "" THEN f ELSE [f EXCEPT !.text = <<>>, !.ending = TRUE]
        ELSE [st EXCEPT !.ending = FALSE, !.text = Append(@, char)]

---------------------------------------------------------------------------
\* ParsedTree.to_text

RECURSIVE to_text(_, _)
to_text(t, nid) ==
    LET kids == Children(t, nid)
        children_text == Join(<<"|">>, [i \in 1..Len(kids) |-> to_text(t, kids[i])])
        tree_text == NodeData_to_text(t.nodes[nid].data)
    IN  IF children_text # <<>>
        THEN tree_text \o <<"(">> \o children_text \o <<")">>
        ELSE tree_text

\* to_text() on the tree: self[self.root] raises on an empty tree
to_text_call(t) ==
    IF t.root = NoneId THEN Raised("NodeIDAbsentError") ELSE Returned(to_text(t, t.root))

---------------------------------------------------------------------------
\* from_text(data, normalize) followed by to_text()

\* the characters of the texts handed to from_text
TextAlphabet == {"(", ")", "|", ":", "a"}

\* a text as the upstream parser prints it: an enumeration prefix ending in "] "
\* and a trailing '#'
UpstreamLine(s) == <<"#", "1", ":", "[", "0", "]", " ">> \o s \o <<"#">>

InitText ==
    /\ op = "from_text"
    /\ pc = "call"
    /\ \E s \in Texts(TextAlphabet, MaxTextLen), n \in BOOLEAN :
        /\ args = [normalize |-> n]
        /\ data = IF n THEN UpstreamLine(s) ELSE s
    /\ idx = 0
    /\ tree = EmptyTree
    /\ node_id = 0
    /\ node_queue = <<>>
    /\ text = <<>>
    /\ ending = TRUE
    /\ created = <<>>
    /\ result = NoResult

\* lines 317-324: normalization and the locals
FromTextBegin ==
    /\ op = "from_text" /\ pc = "call"
    /\ data' = IF args.normalize THEN normalize_text(data) ELSE data
    /\ tree' = ScanInit.tree
    /\ node_id' = ScanInit.node_id
    /\ node_queue' = ScanInit.node_queue
    /\ text' = ScanInit.text
    /\ ending' = ScanInit.ending
    /\ created' = <<>>
    /\ idx' = 1
    /\ pc' = "scan"
    /\ UNCHANGED <<op, args, result>>

\* lines 326-356: one character
FromTextChar ==
    /\ op = "from_text" /\ pc = "scan" /\ idx <= Len(data)
    /\ LET st == ScanChar([tree |-> tree, node_id |-> node_id, node_queue |-> node_queue,
                           text |-> text, ending |-> ending, created |-> created,
                           exc |-> ""], data[idx])
       IN  /\ tree' = st.tree
           /\ node_id' = st.node_id
           /\ node_queue' = st.node_queue
           /\ text' = st.text
           /\ ending' = st.ending
           /\ created' = st.created
           /\ IF st.exc # ""
              THEN pc' = "raised" /\ result' = Raised(st.exc) /\ idx' = idx
              ELSE pc' = "scan" /\ result' = result /\ idx' = idx + 1
    /\ UNCHANGED <<op, data, args>>

\* line 358: return tree
FromTextReturn ==
    /\ op = "from_text" /\ pc = "scan" /\ idx > Len(data)
    /\ pc' = "returned"
    /\ created' = <<>>
    /\ UNCHANGED <<op, data, args, idx, tree, node_id, node_queue, text, ending, result>>

\* to_text() on the returned tree
ToText ==
    /\ op = "from_text" /\ pc = "returned"
    /\ result' = to_text_call(tree)
    /\ pc' = "done"
    /\ UNCHANGED <<op, data, args, idx, tree, node_id, node_queue, text, ending, created>>

NextText == FromTextBegin \/ FromTextChar \/ FromTextReturn \/ ToText

SpecText == InitText /\ [][NextText]_vars

---------------------------------------------------------------------------
\* Nested dicts {id, data, children}

RECURSIVE SortedSeq(_)
\* the integers of S in increasing order
SortedSeq(S) ==
    IF S = {} THEN <<>>
    ELSE LET m == CHOOSE x \in S : \A y \in S : x <= y
         IN  <<m>> \o SortedSeq(S \ {m})

RECURSIVE Flatten(_)
\* the concatenation of a sequence of sequences
Flatten(ss) == IF ss = <<>> THEN <<>> ELSE Head(ss) \o Flatten(Tail(ss))

RECURSIVE IsAncOrSelf(_, _, _)
\* in the parent vector par (0 = no parent), a is x or an ancestor of x
IsAncOrSelf(par, a, x) == x # 0 /\ (x = a \/ IsAncOrSelf(par, a, par[x]))

\* the ordered trees of n nodes, as parent vectors over the nodes in preorder
Shapes(n) ==
    {par \in [1..n -> 0..(n - 1)] :
        /\ par[1] = 0
        /\ \A i \in 2..n : par[i] >= 1 /\ par[i] < i /\ IsAncOrSelf(par, par[i], i - 1)}

RECURSIVE MakeDict(_, _, _, _)
\* the nested dict of node i of shape par, with ids[i] and labels[i] at node i
MakeDict(par, ids, labels, i) ==
    LET cs == SortedSeq({c \in DOMAIN par : par[c] = i})
    IN  [id |-> ids[i], data |-> labels[i],
         children |-> [k \in 1..Len(cs) |-> MakeDict(par, ids, labels, cs[k])]]

RECURSIVE SubDicts(_)
\* a dict and all dicts nested in it, depth-first
SubDicts(d) ==
    <<d>> \o Flatten([k \in 1..Len(d.children) |-> SubDicts(d.children[k])])

DictIds(d) == LET sub == SubDicts(d) IN [k \in 1..Len(sub) |-> sub[k].id]

NoDuplicates(s) == \A i, j \in 1..Len(s) : s[i] = s[j] => i = j

---------------------------------------------------------------------------
\* ParsedNodeData.from_dict / to_dict and ParsedNode.to_dict

\* data_class.from_dict(d): cls(**d)
NodeData_from_dict(d) == NodeData(d.role, d.pos, d.word)

\* data.to_dict(): the fields by name, None kept
NodeData_to_dict(nd) == [role |-> Role(nd), pos |-> Pos(nd), word |-> Word(nd)]

---------------------------------------------------------------------------
\* ParsedTree.from_dict

\* the deque entry (node_dict, parent_id)
QueueEntry(node_dict, parent_id) == [node |-> node_dict, parent |-> parent_id]

\* the loop body with queue.pop() in place of queue.popleft()
FromDictStep_Lifo(t, queue) ==
    LET node_dict == Last(queue).node
        parent_id == Last(queue).parent
        node_data == NodeData_from_dict(node_dict.data)
        r == create_node(t, NodeData_to_text(node_data), node_dict.id, parent_id, node_data)
    IN  [exc |-> r.exc, tree |-> r.tree,
         queue |-> IF r.exc # "" THEN ButLast(queue)
                   ELSE ButLast(queue)
                        \o [k \in 1..Len(node_dict.children) |->
                                QueueEntry(node_dict.children[k], node_dict.id)]]

\* lines 399-405: one iteration of `while queue`
FromDictStep(t, queue) ==
    LET node_dict == Head(queue).node
        parent_id == Head(queue).parent
        node_data == NodeData_from_dict(node_dict.data)
        r == create_node(t, NodeData_to_text(node_data), node_dict.id, parent_id, node_data)
    IN  [exc |-> r.exc, tree |-> r.tree,
         queue |-> IF r.exc # "" THEN Tail(queue)
                   ELSE Tail(queue)
                        \o [k \in 1..Len(node_dict.children) |->
                                QueueEntry(node_dict.children[k], node_dict.id)]]

RECURSIVE FromDictLoop(_, _)
FromDictLoop(t, queue) ==
    IF queue = <<>> THEN Returned(t)
    ELSE LET st == FromDictStep(t, queue)
         IN  IF st.exc # "" THEN Raised(st.exc) ELSE FromDictLoop(st.tree, st.queue)

\* ParsedTree.from_dict(data)
from_dict(d) == FromDictLoop(EmptyTree, <<QueueEntry(d, NoneId)>>)

---------------------------------------------------------------------------
\* ParsedTree.to_dict

RECURSIVE to_dict(_, _)
to_dict(t, nid) ==
    LET kids == Children(t, nid)
    IN  [id |-> nid, data |-> NodeData_to_dict(t.nodes[nid].data),
         children |-> [k \in 1..Len(kids) |-> to_dict(t, kids[k])]]

\* to_dict() on the tree: self[self.root] raises on an empty tree
to_dict_call(t) ==
    IF t.root = NoneId THEN Raised("NodeIDAbsentError") ELSE Returned(to_dict(t, t.root))

---------------------------------------------------------------------------
\* from_dict(data) followed by to_dict()

\* the data dicts of the nodes of the dicts handed to from_dict: by identifier
DictLabel(id) ==
    IF id % 2 = 0
    THEN [role |-> NoneStr, pos |-> <<"S">>, word |-> NoneStr]
    ELSE [role |-> <<"H", "e", "a", "d">>, pos |-> <<"N", "a">>, word |-> <<"x">>]

\* data is a dict of at most MaxNodes nodes with identifiers in 0..MaxNodes-1,
\* unique or not
IsCodecDict(d) ==
    \E n \in 1..MaxNodes : \E par \in Shapes(n), ids \in [1..n -> 0..(MaxNodes - 1)] :
        d = MakeDict(par, ids, [i \in 1..n |-> DictLabel(ids[i])], 1)

InitDict ==
    /\ op = "from_dict"
    /\ pc = "call"
    /\ IsCodecDict(data)
    /\ args = <<>>
    /\ idx = 0
    /\ tree = EmptyTree
    /\ node_id = 0
    /\ node_queue = <<>>
    /\ text = <<>>
    /\ ending = TRUE
    /\ created = <<>>
    /\ result = NoResult

\* lines 393-396
FromDictBegin ==
    /\ op = "from_dict" /\ pc = "call"
    /\ tree' = EmptyTree
    /\ node_queue' = <<QueueEntry(data, NoneId)>>
    /\ pc' = "loop"
    /\ UNCHANGED <<op, data, args, idx, node_id, text, ending, created, result>>

\* lines 398-405
FromDictNode ==
    /\ op = "from_dict" /\ pc = "loop" /\ node_queue # <<>>
    /\ LET st == FromDictStep(tree, node_queue)
       IN  /\ tree' = st.tree
           /\ node_queue' = st.queue
           /\ IF st.exc # ""
              THEN pc' = "raised" /\ result' = Raised(st.exc)
              ELSE pc' = "loop" /\ result' = result
    /\ UNCHANGED <<op, data, args, idx, node_id, text, ending, created>>

\* line 407
FromDictReturn ==
    /\ op = "from_dict" /\ pc = "loop" /\ node_queue = <<>>
    /\ pc' = "returned"
    /\ UNCHANGED <<op, data, args, idx, tree, node_id, node_queue, text, ending, created, result>>

\* to_dict() on the returned tree
ToDict ==
    /\ op = "from_dict" /\ pc = "returned"
    /\ result' = to_dict_call(tree)
    /\ pc' = "done"
    /\ UNCHANGED <<op, data, args, idx, tree, node_id, node_queue, text, ending, created>>

NextDict == FromDictBegin \/ FromDictNode \/ FromDictReturn \/ ToDict

SpecDict == InitDict /\ [][NextDict]_vars

---------------------------------------------------------------------------
\* The bracket grammar  tree := node ('(' tree ('|' tree)* ')')?  as the claims
\* about from_text state it.

IsDelim(c) == c \in {"(", ")", "|"}

RECURSIVE Depth(_, _)
\* number of '(' still open after the first i characters of s
Depth(s, i) ==
    IF i = 0 THEN 0
    ELSE Depth(s, i - 1) + (IF s[i] = "(" THEN 1 ELSE IF s[i] = ")" THEN -1 ELSE 0)

\* a ')' or '|' is read while no '(' is open, or a '(' is never closed
Unbalanced(s) ==
    \/ \E i \in 1..Len(s) : s[i] \in {")", "|"} /\ Depth(s, i - 1) = 0
    \/ Depth(s, Len(s)) > 0

\* every node segment (the text before '(' and between '(', '|' and ')') is
\* present, and nothing follows a ')' but ')' or '|'
NoEmptySegment(s) ==
    /\ s # <<>> /\ ~IsDelim(s[1])
    /\ \A i \in 1..Len(s) :
        /\ s[i] \in {"(", "|"} => i < Len(s) /\ ~IsDelim(s[i + 1])
        /\ s[i] = ")" => i = Len(s) \/ s[i + 1] \in {")", "|"}

\* every node segment is role:pos:word, role:pos or pos with no empty field
NoEmptyField(s) ==
    /\ \A i \in 1..Len(s) :
        s[i] = ":" => /\ i > 1 /\ ~IsDelim(s[i - 1]) /\ s[i - 1] # ":"
                      /\ i < Len(s) /\ ~IsDelim(s[i + 1]) /\ s[i + 1] # ":"
    /\ \A i, j, k \in 1..Len(s) :
        (i < j /\ j < k /\ s[i] = ":" /\ s[j] = ":" /\ s[k] = ":")
            => \E m \in i..k : IsDelim(s[m])

WellFormedText(s) == ~Unbalanced(s) /\ NoEmptySegment(s) /\ NoEmptyField(s)

\* C1: for every bracket-balanced text s without redundant or empty node
\* segments, from_text(s, normalize=False) followed by to_text() returns s.
C1_TextRoundTrip ==
    (op = "from_text" /\ pc = "done" /\ ~args.normalize /\ WellFormedText(data))
        => result = Returned(data)

\* C2: from_text never returns a tree for a text whose brackets are unbalanced.
C2_UnbalancedIsAnError ==
    (op = "from_text" /\ pc = "returned") => ~Unbalanced(data)

\* C9: a ')' or '|' step of the scan creates a node if and only if the text
\* buffer is non-empty when the character is read.
C9_CloseCreatesIffBuffered ==
    [][(op = "from_text" /\ pc = "scan" /\ pc' = "scan" /\ idx <= Len(data)
        /\ data[idx] \in {")", "|"})
            => ((created' # <<>>) <=> (text # <<>>))]_vars

---------------------------------------------------------------------------
\* Both constructors

InitBuild == InitText \/ InitDict

NextBuild == NextText \/ NextDict

SpecBuild == InitBuild /\ [][NextBuild]_vars

\* the nodes of t that have no parent
Parentless(t) == {n \in DOMAIN t.nodes : t.bpointer[n] = NoneId}

\* how often n is listed as a child of p
TimesChildOf(t, p, n) == Cardinality({k \in 1..Len(t.fpointer[p]) : t.fpointer[p][k] = n})

\* one root once non-empty, one parent (already in the tree) per other node,
\* identifiers unique
TreeShape(t) ==
    /\ DOMAIN t.nodes = {t.order[k] : k \in 1..Len(t.order)}
    /\ DOMAIN t.fpointer = DOMAIN t.nodes /\ DOMAIN t.bpointer = DOMAIN t.nodes
    /\ NoDuplicates(t.order)
    /\ t.order = <<>> => t.root = NoneId
    /\ t.order # <<>> => Parentless(t) = {t.root}
    /\ \A n \in DOMAIN t.nodes : \A p \in DOMAIN t.nodes :
        TimesChildOf(t, p, n) = (IF t.bpointer[n] = p THEN 1 ELSE 0)
    /\ \A n \in DOMAIN t.nodes \ {t.root} :
        /\ t.bpointer[n] \in DOMAIN t.nodes
        /\ \E i, j \in 1..Len(t.order) : i < j /\ t.order[i] = t.bpointer[n] /\ t.order[j] = n

\* from_text: the identifiers are 0, 1, 2, ... in order of creation, a node's
\* identifier exceeds its parent's, and siblings are listed in the order read
TextOrder(t) ==
    /\ t.order = [k \in 1..Len(t.order) |-> k - 1]
    /\ \A n \in DOMAIN t.nodes : t.bpointer[n] < n
    /\ \A p \in DOMAIN t.nodes : \A i, j \in 1..Len(t.fpointer[p]) :
        i < j => t.fpointer[p][i] < t.fpointer[p][j]

\* from_dict: the children of each node are those of its dict, in the dict's order
DictOrder(t, d) ==
    LET sub == SubDicts(d)
    IN  \A k \in 1..Len(sub) :
            /\ sub[k].id \in DOMAIN t.nodes
            /\ Children(t, sub[k].id)
                 = [c \in 1..Len(sub[k].children) |-> sub[k].children[c].id]

\* C3: for every nested dict d with unique ids, to_dict(from_dict(d)) = d, and
\* from_dict does not raise.
C3_DictRoundTrip ==
    (op = "from_dict" /\ NoDuplicates(DictIds(data)))
        => /\ pc # "raised"
           /\ pc = "done" => result = Returned(data)

\* a dict of four nodes whose breadth-first and depth-first orders differ went through
C3_Witness ==
    /\ op = "from_dict" /\ pc = "done" /\ result = Returned(data)
    /\ Len(data.children) = 2
    /\ Len(data.children[1].children) = 1
    /\ tree.order # DictIds(data)
    /\ data.id > data.children[1].id

\* C10: in every state of from_text whose steps did not fail, and in the tree
\* from_dict returns, the tree has one root once non-empty, every other node has
\* one parent that was inserted before it, identifiers are unique and children
\* are in source order; from_text issues the identifiers 0, 1, 2, ... in order
\* of creation, so a node's identifier exceeds its parent's.
C10_TreeShape ==
    /\ (op = "from_text" /\ pc \in {"scan", "returned", "done"})
            => TreeShape(tree) /\ TextOrder(tree)
    /\ (op = "from_dict" /\ pc \in {"returned", "done"})
            => TreeShape(tree) /\ DictOrder(tree, data)

\* from_text holds a tree of a root with two children, the first with a child
C10_Witness ==
    /\ op = "from_text" /\ pc = "scan"
    /\ tree.order = <<0, 1, 2, 3>>
    /\ tree.fpointer[0] = <<1, 3>>
    /\ tree.fpointer[1] = <<2>>

---------------------------------------------------------------------------
\* normalize_text(tree_text)

\* the characters of the texts handed to normalize_text
NormAlphabet == {"#", "]", " ", "a"}

InitNorm ==
    /\ op = "normalize_text"
    /\ pc = "call"
    /\ data \in Texts(NormAlphabet, MaxNormLen)
    /\ args = <<>>
    /\ idx = 0
    /\ tree = EmptyTree
    /\ node_id = 0
    /\ node_queue = <<>>
    /\ text = <<>>
    /\ ending = TRUE
    /\ created = <<>>
    /\ result = NoResult

\* lines 299-301
NormalizeText ==
    /\ op = "normalize_text" /\ pc = "call"
    /\ result' = Returned(normalize_text(data))
    /\ pc' = "done"
    /\ UNCHANGED <<op, data, args, idx, tree, node_id, node_queue, text, ending, created>>

NextNorm == NormalizeText

SpecNorm == InitNorm /\ [][NextNorm]_vars

\* s with everything up through the first occurrence of sub removed
AfterFirst(s, sub) ==
    LET k == FindSub(s, sub, 1)
    IN  IF k = 0 THEN s ELSE SubSeq(s, k + Len(sub), Len(s))

\* C4: normalize_text of a text containing '#' is the text after the FIRST "] "
\* with the trailing '#' stripped; a text without '#' is returned unchanged.
C4_NormalizeDropsThroughFirst ==
    (op = "normalize_text" /\ pc = "done")
        => result = Returned(IF Contains(data, "#")
                             THEN RStrip(AfterFirst(data, <<"]", " ">>), "#")
                             ELSE data)

---------------------------------------------------------------------------
\* ParsedTree.get_heads

S_Head == <<"H", "e", "a", "d">>
S_head == <<"h", "e", "a", "d">>
S_DUMMY == <<"D", "U", "M", "M", "Y">>
S_DUMMY1 == <<"D", "U", "M", "M", "Y", "1">>
S_DUMMY2 == <<"D", "U", "M", "M", "Y", "2">>
S_NP == <<"N", "P">>
S_S == <<"S">>

\* `if root_id is None: root_id = self.root`
ResolveRoot(t, root_id) == IF root_id = NoneId THEN t.root ELSE root_id

RoleOf(t, nid) == Role(t.nodes[nid].data)
PosOf(t, nid) == Pos(t.nodes[nid].data)

\* lines 479-508 with the `if not head_nodes` guard of the 'Head' search left out
head_nodes_NoGuard(t, root_id, semantic) ==
    LET children == Children(t, root_id)
        IsDummy(c) == RoleOf(t, c) \in {S_DUMMY, S_DUMMY1, S_DUMMY2}
        Ishead(c) == RoleOf(t, c) = S_head
        IsHead(c) == RoleOf(t, c) = S_Head
        h0 == IF children = <<>> THEN <<root_id>> ELSE <<>>
        h1 == IF semantic /\ h0 = <<>> THEN h0 \o SelectSeq(children, IsDummy) ELSE h0
        h2 == IF semantic /\ h1 = <<>> THEN h1 \o SelectSeq(children, Ishead) ELSE h1
        h3 == h2 \o SelectSeq(children, IsHead)
    IN  IF h3 = <<>> THEN Append(h3, Last(children)) ELSE h3

\* lines 479-508: the list head_nodes, filled rule by rule
head_nodes(t, root_id, semantic) ==
    LET children == Children(t, root_id)
        IsDummy(c) == RoleOf(t, c) \in {S_DUMMY, S_DUMMY1, S_DUMMY2}
        Ishead(c) == RoleOf(t, c) = S_head
        IsHead(c) == RoleOf(t, c) = S_Head
        h0 == IF children = <<>> THEN <<root_id>> ELSE <<>>
        h1 == IF semantic /\ h0 = <<>> THEN h0 \o SelectSeq(children, IsDummy) ELSE h0
        h2 == IF semantic /\ h1 = <<>> THEN h1 \o SelectSeq(children, Ishead) ELSE h1
        h3 == IF h2 = <<>> THEN h2 \o SelectSeq(children, IsHead) ELSE h2
    IN  IF h3 = <<>> THEN Append(h3, Last(children)) ELSE h3

\* lines 510-515 with the heads of a level yielded as they are, never descended into
get_heads_NoDescent(t, root_id, semantic, deep) ==
    head_nodes(t, ResolveRoot(t, root_id), semantic)

RECURSIVE get_heads(_, _, _, _)
\* ParsedTree.get_heads(root_id, semantic, deep), as the list of identifiers yielded
get_heads(t, root_id, semantic, deep) ==
    LET hs == head_nodes(t, ResolveRoot(t, root_id), semantic)
    IN  Flatten([k \in 1..Len(hs) |->
                    IF deep /\ ~is_leaf(t, hs[k])
                    THEN get_heads(t, hs[k], semantic, TRUE)
                    ELSE <<hs[k]>>])

---------------------------------------------------------------------------
\* ParsedTree.get_relations

\* ParsedRelation(head, tail, relation), by identifier
Relation(head, tail, relation) == [head |-> head, tail |-> tail, relation |-> relation]

\* lines 542-547 without the `tail not in head_children` test
tail_relations_AnyTail(t, head_node, tail, head_children, semantic) ==
    IF RoleOf(t, tail) # S_Head
    THEN IF is_leaf(t, tail) THEN <<Relation(head_node, tail, tail)>>
         ELSE LET ns == get_heads(t, tail, semantic, TRUE)
              IN  [k \in 1..Len(ns) |-> Relation(head_node, ns[k], tail)]
    ELSE <<>>

\* lines 542-547: what one (head_node, tail) pair yields
tail_relations(t, head_node, tail, head_children, semantic) ==
    IF RoleOf(t, tail) # S_Head /\ ~Contains(head_children, tail)
    THEN IF is_leaf(t, tail) THEN <<Relation(head_node, tail, tail)>>
         ELSE LET ns == get_heads(t, tail, semantic, TRUE)
              IN  [k \in 1..Len(ns) |-> Relation(head_node, ns[k], tail)]
    ELSE <<>>

RECURSIVE get_relations(_, _, _)
\* ParsedTree.get_relations(root_id, semantic), as the list of relations yielded
get_relations(t, root_id, semantic) ==
    LET rid == ResolveRoot(t, root_id)
        children == Children(t, rid)
        head_children == get_heads(t, rid, semantic, FALSE)
        heads == get_heads(t, rid, semantic, TRUE)
    IN  Flatten([h \in 1..Len(heads) |->
            Flatten([c \in 1..Len(children) |->
                tail_relations(t, heads[h], children[c], head_children, semantic)])])
        \o Flatten([c \in 1..Len(children) |-> get_relations(t, children[c], semantic)])

---------------------------------------------------------------------------
\* ParsedTree.get_subjects

\* ckipnlp.data.parsed.SUBJECT_ROLES
SUBJECT_ROLES == {<<"a", "g", "e", "n", "t">>}
\* ckipnlp.data.parsed.NEUTRAL_ROLES
NEUTRAL_ROLES == {<<"t", "h", "e", "m", "e">>}

\* s.startswith(c) for a str s
StartsWith(s, c) == s # <<>> /\ s[1] = c

\* an exception out of a generator that has already yielded `out`
RaisedAfter(e, out) == [kind |-> "raise", exc |-> e, val |-> out]

RECURSIVE SubjectsOverChildren(_, _, _, _, _, _)
\* lines 588-593: `for subroot in self.children(root.identifier)`; None has no startswith
SubjectsOverChildren(t, head, children, semantic, deep, out) ==
    IF children = <<>> THEN Returned(out)
    ELSE LET subroot == Head(children)
         IN  IF PosOf(t, subroot) = NoneStr THEN RaisedAfter("AttributeError", out)
             ELSE IF /\ StartsWith(PosOf(t, subroot), "N")
                     /\ \/ RoleOf(t, subroot) \in SUBJECT_ROLES
                        \/ RoleOf(t, subroot) \in NEUTRAL_ROLES /\ subroot < head
             THEN SubjectsOverChildren(t, head, Tail(children), semantic, deep,
                                       out \o get_heads(t, subroot, semantic, deep))
             ELSE SubjectsOverChildren(t, head, Tail(children), semantic, deep, out)

RECURSIVE SubjectsOverHeads(_, _, _, _, _, _)
\* lines 586-587: `for head in self.get_heads(..., semantic=False, deep=False)`
SubjectsOverHeads(t, rid, heads, semantic, deep, out) ==
    IF heads = <<>> THEN Returned(out)
    ELSE LET head == Head(heads)
         IN  IF PosOf(t, head) = NoneStr THEN RaisedAfter("AttributeError", out)
             ELSE IF StartsWith(PosOf(t, head), "V")
             THEN LET r == SubjectsOverChildren(t, head, Children(t, rid), semantic, deep, out)
                  IN  IF r.kind = "raise" THEN r
                      ELSE SubjectsOverHeads(t, rid, Tail(heads), semantic, deep, r.val)
             ELSE SubjectsOverHeads(t, rid, Tail(heads), semantic, deep, out)

\* ParsedTree.get_subjects(root_id, semantic, deep): the list yielded, or the exception
get_subjects(t, root_id, semantic, deep) ==
    LET rid == ResolveRoot(t, root_id)
    IN  IF PosOf(t, rid) = S_NP THEN Returned(get_heads(t, rid, semantic, deep))
        ELSE IF PosOf(t, rid) = S_S
        THEN SubjectsOverHeads(t, rid, get_heads(t, rid, FALSE, FALSE), semantic, deep, <<>>)
        ELSE Returned(<<>>)

---------------------------------------------------------------------------
\* The traversals on a tree built by from_dict

\* the data dicts of the nodes of the trees traversed
TravLabels ==
    {[role |-> NoneStr, pos |-> S_S, word |-> NoneStr],
     [role |-> S_Head, pos |-> <<"V", "C">>, word |-> <<"x">>],
     [role |-> <<"a", "g", "e", "n", "t">>, pos |-> <<"N", "a">>, word |-> <<"x">>],
     [role |-> <<"t", "h", "e", "m", "e">>, pos |-> <<"N", "a">>, word |-> <<"x">>],
     [role |-> S_head, pos |-> NoneStr, word |-> NoneStr],
     [role |-> S_DUMMY1, pos |-> S_NP, word |-> NoneStr]}

\* the data dicts of their roots: the traversals read the pos of the node they
\* are called on, and the role of children only; get_subjects tells the pos 'S'
\* and 'NP' from all others, which the calls on the other nodes cover
TravRootLabels == {l \in TravLabels : l.pos \in {S_S, S_NP}}

\* the nodes numbered 0, 1, 2, ... in preorder, as from_text numbers them
TravIds(n) == [i \in 1..n |-> i - 1]

InitTrav ==
    /\ op = "traverse"
    /\ pc = "built"
    /\ data = <<>>
    /\ \E n \in 1..MaxNodes : \E par \in Shapes(n), labels \in [1..n -> TravLabels] :
        /\ labels[1] \in TravRootLabels
        /\ tree = from_dict(MakeDict(par, TravIds(n), labels, 1)).val
    /\ args = <<>>
    /\ idx = 0
    /\ node_id = 0
    /\ node_queue = <<>>
    /\ text = <<>>
    /\ ending = TRUE
    /\ created = <<>>
    /\ result = NoResult

\* the root_id arguments: None (the root) or another node of the tree
RootIds(t) == {NoneId} \union (DOMAIN t.nodes \ {t.root})

\* list(tree.get_heads(root_id, semantic=semantic, deep=deep))
GetHeads ==
    /\ op = "traverse" /\ pc = "built"
    /\ \E r \in RootIds(tree), sem \in BOOLEAN, dp \in BOOLEAN :
        /\ args' = [fn |-> "get_heads", root_id |-> r, semantic |-> sem, deep |-> dp]
        /\ result' = Returned(get_heads(tree, r, sem, dp))
    /\ pc' = "done"
    /\ UNCHANGED <<op, data, idx, tree, node_id, node_queue, text, ending, created>>

\* list(tree.get_relations(root_id, semantic=semantic))
GetRelations ==
    /\ op = "traverse" /\ pc = "built"
    /\ \E r \in RootIds(tree), sem \in BOOLEAN :
        /\ args' = [fn |-> "get_relations", root_id |-> r, semantic |-> sem, deep |-> TRUE]
        /\ result' = Returned(get_relations(tree, r, sem))
    /\ pc' = "done"
    /\ UNCHANGED <<op, data, idx, tree, node_id, node_queue, text, ending, created>>

\* list(tree.get_subjects(root_id, semantic=semantic, deep=deep))
GetSubjects ==
    /\ op = "traverse" /\ pc = "built"
    /\ \E r \in RootIds(tree), sem \in BOOLEAN, dp \in BOOLEAN :
        /\ args' = [fn |-> "get_subjects", root_id |-> r, semantic |-> sem, deep |-> dp]
        /\ result' = get_subjects(tree, r, sem, dp)
    /\ pc' = "done"
    /\ UNCHANGED <<op, data, idx, tree, node_id, node_queue, text, ending, created>>

NextTrav == GetHeads \/ GetRelations \/ GetSubjects

SpecTrav == InitTrav /\ [][NextTrav]_vars

---------------------------------------------------------------------------
\* Every operation

Init == InitText \/ InitDict \/ InitNorm \/ InitTrav

Next == NextText \/ NextDict \/ NextNorm \/ NextTrav

Spec == Init /\ [][Next]_vars

---------------------------------------------------------------------------
\* Claims about the traversals

ToSet(s) == {s[k] : k \in 1..Len(s)}

Called(fn) == op = "traverse" /\ pc = "done" /\ args.fn = fn

\* the node a call is about
CallRoot == ResolveRoot(tree, args.root_id)

\* the priority order of the head rules, over the children of n in sibling order
ExpectedShallowHeads(t, n, semantic) ==
    LET kids == Children(t, n)
        IsDummy(c) == RoleOf(t, c) = S_DUMMY \/ RoleOf(t, c) = S_DUMMY1 \/ RoleOf(t, c) = S_DUMMY2
        IsSemHead(c) == RoleOf(t, c) = S_head
        IsSynHead(c) == RoleOf(t, c) = S_Head
    IN  CASE kids = <<>> -> <<n>>
          [] kids # <<>> /\ semantic /\ (\E k \in 1..Len(kids) : IsDummy(kids[k]))
                -> SelectSeq(kids, IsDummy)
          [] kids # <<>> /\ semantic /\ (\A k \in 1..Len(kids) : ~IsDummy(kids[k]))
                /\ (\E k \in 1..Len(kids) : IsSemHead(kids[k]))
                -> SelectSeq(kids, IsSemHead)
          [] OTHER -> IF \E k \in 1..Len(kids) : IsSynHead(kids[k])
                      THEN SelectSeq(kids, IsSynHead)
                      ELSE <<kids[Len(kids)]>>

\* C5: get_heads(root_id, semantic, deep=False) yields, in sibling order, the
\* node itself if it is a leaf; else the DUMMY/DUMMY1/DUMMY2 children if semantic
\* and there is one; else the 'head' children if semantic and there is one; else
\* the 'Head' children if there is one; else the last child only.
C5_ShallowHeadPriority ==
    (Called("get_heads") /\ ~args.deep)
        => result = Returned(ExpectedShallowHeads(tree, CallRoot, args.semantic))

\* a semantic search over three children without Head, head or DUMMY role yielded
\* the last child only
C5_Witness ==
    /\ Called("get_heads") /\ ~args.deep /\ args.semantic
    /\ Len(Children(tree, CallRoot)) = 3
    /\ \A c \in ToSet(Children(tree, CallRoot)) :
            RoleOf(tree, c) \notin {S_Head, S_head, S_DUMMY, S_DUMMY1, S_DUMMY2}
    /\ result = Returned(<<Children(tree, CallRoot)[3]>>)

RECURSIVE ExpectedRelations(_, _, _)
\* per node, then per child subtree in sibling order: every deep head of the node
\* paired with every child that is no shallow head of the node and has no role 'Head'
ExpectedRelations(t, n, semantic) ==
    LET kids == Children(t, n)
        hs == get_heads(t, n, semantic, TRUE)
        IsTail(c) == c \notin ToSet(get_heads(t, n, semantic, FALSE)) /\ RoleOf(t, c) # S_Head
        tails == SelectSeq(kids, IsTail)
        Pair(h, tl) ==
            IF Children(t, tl) = <<>> THEN <<[head |-> h, tail |-> tl, relation |-> tl]>>
            ELSE LET ns == get_heads(t, tl, semantic, TRUE)
                 IN  [k \in 1..Len(ns) |-> [head |-> h, tail |-> ns[k], relation |-> tl]]
    IN  Flatten([i \in 1..Len(hs) |-> Flatten([j \in 1..Len(tails) |-> Pair(hs[i], tails[j])])])
        \o Flatten([c \in 1..Len(kids) |-> ExpectedRelations(t, kids[c], semantic)])

\* C6: get_relations(root_id, semantic) yields, for the node and then for every
\* child subtree in sibling order, one relation per deep head h of the node and
\* child t that is neither a shallow head of the node nor of role 'Head':
\* (h, t, t) for a leaf t, (h, n, t) per deep head n of t otherwise; nothing else.
C6_Relations ==
    Called("get_relations")
        => result = Returned(ExpectedRelations(tree, CallRoot, args.semantic))

\* S(Head:..|particle:..): exactly one relation, head the Head child, tail and
\* relation the other child
C6_Witness ==
    /\ Called("get_relations") /\ args.semantic /\ CallRoot = tree.root
    /\ DOMAIN tree.nodes = {0, 1, 2}
    /\ Children(tree, 0) = <<1, 2>>
    /\ RoleOf(tree, 1) = S_Head
    /\ RoleOf(tree, 2) \notin {S_Head, S_head, S_DUMMY1}
    /\ result = Returned(<<[head |-> 1, tail |-> 2, relation |-> 2]>>)

\* pos starts with c; an unset pos starts with nothing
PosStartsWith(t, n, c) == PosOf(t, n) # NoneStr /\ PosOf(t, n) # <<>> /\ PosOf(t, n)[1] = c

\* child c of the 'S' node n is a subject: n has a syntactic shallow head h whose
\* pos starts with 'V', c's pos starts with 'N', and c has a subject role, or a
\* neutral role and an identifier below h's
IsSubjectChild(t, n, c) ==
    \E h \in ToSet(get_heads(t, n, FALSE, FALSE)) :
        /\ PosStartsWith(t, h, "V")
        /\ PosStartsWith(t, c, "N")
        /\ \/ RoleOf(t, c) \in SUBJECT_ROLES
           \/ RoleOf(t, c) \in NEUTRAL_ROLES /\ c < h

\* C7: on an 'S' node get_subjects yields the heads of exactly the children that
\* are subjects (IsSubjectChild); on a node that is neither 'NP' nor 'S' it yields
\* nothing.
C7_SubjectScan ==
    (Called("get_subjects") /\ PosOf(tree, CallRoot) # S_NP)
        => /\ result.kind = "return"
           /\ ToSet(result.val)
                = (IF PosOf(tree, CallRoot) = S_S
                   THEN UNION {ToSet(get_heads(tree, c, args.semantic, args.deep)) :
                                c \in {x \in ToSet(Children(tree, CallRoot)) :
                                            IsSubjectChild(tree, CallRoot, x)}}
                   ELSE {})

\* C8: get_heads, get_relations and get_subjects never raise, whatever fields of
\* the nodes are unset.
C8_TraversalsNeverRaise ==
    (op = "traverse" /\ pc = "done") => result.kind = "return"

RECURSIVE Preorder(_, _)
\* the subtree of n in depth-first, left-to-right order, n first
Preorder(t, n) ==
    LET kids == Children(t, n)
    IN  <<n>> \o Flatten([k \in 1..Len(kids) |-> Preorder(t, kids[k])])

RECURSIVE ExpectedDeepHeads(_, _, _)
\* the heads selected at n, each kept if it has no children and replaced by the
\* deep heads of its own subtree otherwise
ExpectedDeepHeads(t, n, semantic) ==
    LET hs == ExpectedShallowHeads(t, n, semantic)
    IN  Flatten([k \in 1..Len(hs) |->
                    IF Children(t, hs[k]) = <<>> THEN <<hs[k]>>
                    ELSE ExpectedDeepHeads(t, hs[k], semantic)])

\* C11: get_heads(root_id, semantic, deep=True) returns at least one node; each
\* head selected at a level is yielded itself if it is a leaf and is replaced by
\* the deep heads of its own subtree (same semantic flag) otherwise; every
\* yielded node is a leaf of the subtree of root_id, and the yield follows the
\* depth-first, left-to-right order of that subtree without repetition.
C11_DeepHeads ==
    (Called("get_heads") /\ args.deep)
        => /\ result.kind = "return"
           /\ Len(result.val) >= 1
           /\ result.val = ExpectedDeepHeads(tree, CallRoot, args.semantic)
           /\ \A k \in 1..Len(result.val) : Children(tree, result.val[k]) = <<>>
           /\ LET Yielded(x) == x \in ToSet(result.val)
              IN  result.val = SelectSeq(Preorder(tree, CallRoot), Yielded)

\* a deep search from a node with children whose selected head has children of
\* its own: that head is not yielded, a grandchild of the node is
C11_Witness ==
    /\ Called("get_heads") /\ args.deep
    /\ result.kind = "return"
    /\ \E h \in ToSet(ExpectedShallowHeads(tree, CallRoot, args.semantic)) :
            /\ h # CallRoot
            /\ Children(tree, h) # <<>>
            /\ h \notin ToSet(result.val)
            /\ \E x \in ToSet(result.val) : tree.bpointer[x] = h

=============================================================================
